---- MODULE Spec2Model ----
(***************************************************************************)
(* POAP provisioning script hack/dnsmasq/nxos.py: one run of main() on a   *)
(* switch, with the boot volume, the bootstrap server and the device       *)
(* command facility as its environment.                                    *)
(*                                                                         *)
(* Representation of strings.  A path or URL is kept as the list           *)
(* str.split("/") returns for it, so "bootflash:///a.bin" is               *)
(* <<"bootflash:", "", "", "a.bin">> and "bootflash:/a.bin" is             *)
(* <<"bootflash:", "a.bin">>.  split and "/".join are inverse to each      *)
(* other, hence two such lists are equal exactly when the Python strings   *)
(* are equal.  Results of to_posix_path, glob and os paths are real        *)
(* strings ("/bootflash/a.bin").                                           *)
(***************************************************************************)
EXTENDS Integers, Sequences, FiniteSets, TLC

VARIABLES
    pc,                 \* position of the run inside main / download_image
    fs,                 \* boot volume: POSIX path -> content digest or Absent
    init_fs,            \* the boot volume as it was when the run started
    device_image,       \* what 'show version' reports: [version, path]
    bootstrap,          \* main: bootstrap
    running_image,      \* main: running_image
    target_image_path,  \* main: target_image_path
    bin_files,          \* clean_old_images: glob result still to be visited
    attempt,            \* number of calls of download_image made by the caller
    written,            \* download_image: chunks written to the open file
    dl_result,          \* how the last download_image call ended
    trace,              \* file operations, transfers, device commands, log lines
    exit_code,          \* process exit status, NoExit while running
    error,              \* exception that ended the run, "none" otherwise
    handler_installed,  \* signal.signal(SIGTERM, ...) has been executed
    sigterms,           \* SIGTERMs delivered to the handler
    calls,              \* download_image calls observed by the direct-call driver
    cisco_path,         \* to_posix_path: path, as its split("/") list
    ppath,              \* to_posix_path: what the call returned or raised
    password,           \* generate_type8_password: password, as code points
    salt_bytes,         \* generate_type8_password: salt_bytes as supplied
    hashes              \* generate_type8_password: results of the calls made

vars == <<pc, fs, init_fs, device_image, bootstrap, running_image,
          target_image_path, bin_files, attempt, written, dl_result, trace,
          exit_code, error, handler_installed, sigterms, calls,
          cisco_path, ppath, password, salt_bytes, hashes>>

\* the variables of the two functions main does not call between them
pure == <<cisco_path, ppath, password, salt_bytes, hashes>>

-----------------------------------------------------------------------------
(* Bounds of the model *)

\* chunks response.iter_content yields for one image body
NumChunks == 2
\* SIGTERMs that may be delivered during one run
MaxSignals == 1
\* consecutive direct calls of download_image made by the driver
MaxCalls == 2

-----------------------------------------------------------------------------
(* Strings *)

RECURSIVE Join(_, _)
\* sep.join(seq)
Join(seq, sep) ==
    IF Len(seq) = 0 THEN ""
    ELSE IF Len(seq) = 1 THEN seq[1]
    ELSE seq[1] \o sep \o Join(Tail(seq), sep)

\* the Python string a split list stands for
PathStr(tokens) == Join(tokens, "/")

\* a + b on the split lists of two strings
StrCat(a, b) ==
    SubSeq(a, 1, Len(a) - 1) \o <<a[Len(a)] \o b[1]>> \o Tail(b)

\* os.path.basename(url): what follows the last "/"
Basename(url) == <<url[Len(url)]>>

LOCAL_IMAGE_DIR == <<"bootflash:", "", "", "">>

VolumeNames == {"bootflash", "flash", "nvram", "usb2", "usb1"}

\* the list literal of to_posix_path
VolumeLabels == {n \o ":" : n \in VolumeNames}

\* tokens[0].replace(":", "") for a volume label
StripColon(label) == CHOOSE n \in VolumeNames : n \o ":" = label

\* to_posix_path raises ValueError
ToPosixPathRaises(path) == path[1] \notin VolumeLabels

\* ToPosixPath with the empty tokens kept
ToPosixPathKeepsEmpty(path) ==
    Join(<<"/" \o StripColon(path[1])>> \o Tail(path), "/")

\* to_posix_path(path), for a path it does not raise on
ToPosixPath(path) ==
    Join(<<"/" \o StripColon(path[1])>>
            \o SelectSeq(Tail(path), LAMBDA token : token # ""), "/")

-----------------------------------------------------------------------------
(* The boot volume *)

Absent == "absent"
Partial == "partial"
Md5s == {"m1", "m2"}

\* what a file may hold: a whole image, named by its MD5 digest, or the
\* beginning of one
Contents == Md5s \cup {Partial}

Stems == {"a", "b", "c", "d"}

\* every file of the model, as directory segments below "/"
FileSegs ==
    { <<"bootflash", "a.bin">>, <<"bootflash", "b.bin">>, <<"bootflash", "c.bin">>,
      <<"bootflash", "sub", "d.bin">>, <<"bootflash", "poap.log">> }

AbsPath(segs) == "/" \o Join(segs, "/")

FilePaths == { AbsPath(s) : s \in FileSegs }

\* fnmatch(name, "*.bin")
MatchesBin(name) == \E stem \in Stems : name = stem \o ".bin"

\* os.path.exists(p)
Exists(files, p) == p \in DOMAIN files /\ files[p] # Absent

\* glob.glob("/bootflash/*.bin", recursive=False)
Glob(files) ==
    { AbsPath(s) : s \in { x \in FileSegs :
                             /\ Len(x) = 2
                             /\ x[1] = "bootflash"
                             /\ MatchesBin(x[2])
                             /\ Exists(files, AbsPath(x)) } }

\* contents after os.remove(p)
Remove(files, p) == [files EXCEPT ![p] = Absent]

\* contents after p was opened "wb", or written and closed with content c
WriteFile(files, p, c) == [files EXCEPT ![p] = c]

-----------------------------------------------------------------------------
(* Inputs: the bootstrap server and the device *)

\* nxos_ver_str values of the device
Versions == {"10.4(3)", "10.4(4)"}

\* version of the image the server describes
TargetVersions == {"10.4(4)"}

Urls == { <<"https:", "", "srv", "images", "a.bin">>,
          <<"https:", "", "srv", "b.bin">> }

ConfigLines == { <<"hostname sw1">>,
                 <<"interface Ethernet1/1", "no shutdown">> }

\* the JSON document of poap.json (comment at lines 50-59)
Descriptors ==
    [image : [version : TargetVersions, url : Urls, md5sum : Md5s],
     config : [lines : ConfigLines]]

\* nxos_file_name as the device may report it
RunningPaths == { <<"bootflash:", "", "", "a.bin">>,
                  <<"bootflash:", "a.bin">>,
                  <<"bootflash:", "", "", "c.bin">>,
                  <<"volatile:", "a.bin">> }

DeviceImages == [version : Versions, path : RunningPaths]

\* boot volumes a device that booted image img can have: the image it booted
\* from is a whole file on the volume
Volumes(img) ==
    { f \in [FilePaths -> Contents \cup {Absent}] :
        /\ f["/bootflash/sub/d.bin"] = "m1"
        /\ f["/bootflash/poap.log"] = "m2"
        /\ f["/bootflash/b.bin"] \in {Absent, "m1"}
        /\ f["/bootflash/c.bin"] \in {Absent, "m1"}
        /\ ~ToPosixPathRaises(img.path) => f[ToPosixPath(img.path)] \in Md5s }

NoBootstrap ==
    [image |-> [version |-> "", url |-> <<>>, md5sum |-> ""],
     config |-> [lines |-> <<>>]]
NoImage == [version |-> "", path |-> <<>>]
NoPath == <<>>
NoExit == 0 - 1
\* to_posix_path has not been called
NoCall == "not called"
\* salt_bytes: bytes = None
None == [supplied |-> FALSE, bytes |-> <<>>]

\* neither function is called by main: their variables stay as they are
PureIdle ==
    /\ cisco_path = NoPath
    /\ ppath = NoCall
    /\ password = <<>>
    /\ salt_bytes = None
    /\ hashes = <<>>

-----------------------------------------------------------------------------
(* Device commands *)

ShowVersion == "show version"
ShowBoot == "show boot"
ShowStartupConfig == "show startup-config"
CopyRunningStartup == "copy running-config startup-config"
ReloadCmd == "terminal dont-ask ; reload"

\* f"show file {target_image_path} md5sum"
ShowFileMd5(path) == "show file " \o PathStr(path) \o " md5sum"

\* f'boot nxos {target_image_path}'
BootNxos(path) == "boot nxos " \o PathStr(path)

RECURSIVE Reverse(_)
Reverse(seq) ==
    IF seq = <<>> THEN <<>> ELSE Append(Reverse(Tail(seq)), Head(seq))

\* ConfString with the lines joined last to first
ConfStringReversed(config_lines) ==
    "configure terminal ; " \o Join(Reverse(config_lines), " ; ") \o " ; end"

\* conf_string of configure(config_lines)
ConfString(config_lines) ==
    "configure terminal ; " \o Join(config_lines, " ; ") \o " ; end"

\* one entry of the trace
Ev(op, arg, site, ok) == [op |-> op, arg |-> arg, site |-> site, ok |-> ok]

Cli(command, site, ok) == Ev("cli", command, site, ok)
Log(message, site) == Ev("log", message, site, TRUE)

-----------------------------------------------------------------------------
(* Decisions of main and its helpers *)

\* KeepsFile without the test for the running image
KeepsOnlyTarget(bin_file, running_image_path, target_path) ==
    bin_file = target_path

\* clean_old_images: the two tests that skip a file of the glob result
KeepsFile(bin_file, running_image_path, target_path) ==
    bin_file = target_path \/ bin_file = running_image_path

\* download_image: md5sum != image_conf["md5sum"]
Md5Mismatch(md5sum, image_conf) == md5sum # image_conf.md5sum

\* NeedsTransfer without the test for an existing file
NeedsTransferAlways(files, target_path) == TRUE

\* download_image: the test that decides whether the image is transferred
NeedsTransfer(files, target_path) ==
    ~Exists(files, ToPosixPath(target_path))

\* main: target_image_path != running_image["path"], the test of the retry
RetryAllowed(target_path, running) == target_path # running.path

\* NeedsNewBootConfig with "and" for "or"
NeedsNewBootConfigBoth(running, target_path, image_conf) ==
    running.path # target_path /\ running.version # image_conf.version

\* main: the test that guards the boot-variable block
NeedsNewBootConfig(running, target_path, image_conf) ==
    running.path # target_path \/ running.version # image_conf.version

\* main: target_image_path
TargetImagePath(descriptor) ==
    StrCat(LOCAL_IMAGE_DIR, Basename(descriptor.image.url))

-----------------------------------------------------------------------------
(* Ways a run ends *)

\* exit(code) after the events were appended
Exit(code, err, events) ==
    /\ pc' = "done"
    /\ exit_code' = code
    /\ error' = err
    /\ trace' = trace \o events

\* __main__: except Exception -> LOG.error, exit(1)
Uncaught(err, events) ==
    Exit(1, err, events \o <<Log("An uncaught error occurred", "__main__")>>)

\* main returns, the interpreter exits with status 0
Return(events) == Exit(0, "none", events)

-----------------------------------------------------------------------------
(* The device and the network.  A run that follows an interrupted one meets *)
(* a device and a network that do not fail; it is told from a first run by  *)
(* the restart entry its trace begins with.                                 *)

Restarted == Len(trace) > 0 /\ trace[1].op = "restart"

\* how a device command, a transfer or an os.remove may end
Outcomes == IF Restarted THEN {TRUE} ELSE BOOLEAN

\* what the server may answer to the request for poap.json: the document
\* does not change between an interrupted run and the next
Served ==
    IF Restarted /\ bootstrap # NoBootstrap THEN {bootstrap} ELSE Descriptors

\* the MD5 digest of what a completed transfer has written
Received(image_conf) ==
    IF Restarted THEN {image_conf.md5sum} ELSE Md5s

-----------------------------------------------------------------------------
(* main, up to the image download *)

Init ==
    /\ pc = "start"
    /\ device_image \in DeviceImages
    /\ fs \in Volumes(device_image)
    /\ init_fs = fs
    /\ bootstrap = NoBootstrap
    /\ running_image = NoImage
    /\ target_image_path = NoPath
    /\ bin_files = {}
    /\ attempt = 0
    /\ written = 0
    /\ dl_result = "none"
    /\ trace = <<>>
    /\ exit_code = NoExit
    /\ error = "none"
    /\ handler_installed = FALSE
    /\ sigterms = 0
    /\ calls = <<>>
    /\ PureIdle

\* setup_logging, signal.signal, os.statvfs
Setup ==
    /\ pc = "start"
    /\ pc' = "serial"
    /\ handler_installed' = TRUE
    /\ UNCHANGED <<fs, init_fs, device_image, bootstrap, running_image,
                   target_image_path, bin_files, attempt, written, dl_result,
                   trace, exit_code, error, sigterms, calls>>
    /\ UNCHANGED pure

\* Sigterm with the default disposition: the process is terminated
SigtermExits ==
    /\ handler_installed
    /\ pc # "done"
    /\ sigterms < MaxSignals
    /\ sigterms' = sigterms + 1
    /\ Exit(143, "SIGTERM", <<>>)
    /\ UNCHANGED <<fs, init_fs, device_image, bootstrap, running_image,
                   target_image_path, bin_files, attempt, written, dl_result,
                   handler_installed, calls>>
    /\ UNCHANGED pure

\* the handler of SIGTERM: one log line, nothing else
Sigterm ==
    /\ handler_installed
    /\ pc # "done"
    /\ sigterms < MaxSignals
    /\ sigterms' = sigterms + 1
    /\ UNCHANGED <<pc, fs, init_fs, device_image, bootstrap, running_image,
                   target_image_path, bin_files, attempt, written, dl_result,
                   trace, exit_code, error, handler_installed, calls>>
    /\ UNCHANGED pure

\* serial = cli_json('show version')['proc_board_id']
GetSerial ==
    /\ pc = "serial"
    /\ \E ok \in Outcomes :
        IF ok
        THEN /\ pc' = "fetch"
             /\ trace' = Append(trace, Cli(ShowVersion, "main", TRUE))
             /\ UNCHANGED <<exit_code, error>>
        ELSE Uncaught("cmd_exec_error", <<Cli(ShowVersion, "main", FALSE)>>)
    /\ UNCHANGED <<fs, init_fs, device_image, bootstrap, running_image,
                   target_image_path, bin_files, attempt, written, dl_result,
                   handler_installed, sigterms, calls>>
    /\ UNCHANGED pure

\* get_bootstrap_data returns the descriptor
FetchBootstrap ==
    /\ pc = "fetch"
    /\ \E d \in Served : bootstrap' = d
    /\ pc' = "booted"
    /\ trace' = Append(trace, Ev("get", "poap.json", "get_bootstrap_data", TRUE))
    /\ UNCHANGED <<fs, init_fs, device_image, running_image,
                   target_image_path, bin_files, attempt, written, dl_result,
                   exit_code, error, handler_installed, sigterms, calls>>
    /\ UNCHANGED pure

\* FetchBootstrapFails with exit status 0
FetchBootstrapFailsExitZero ==
    /\ pc = "fetch"
    /\ ~Restarted
    /\ Exit(0, "RequestException",
            <<Ev("get", "poap.json", "get_bootstrap_data", FALSE),
              Log("Failed to fetch bootstrap data", "main")>>)
    /\ UNCHANGED <<fs, init_fs, device_image, bootstrap, running_image,
                   target_image_path, bin_files, attempt, written, dl_result,
                   handler_installed, sigterms, calls>>
    /\ UNCHANGED pure

\* get_bootstrap_data raises (transport error, or raise_for_status):
\* except requests.RequestException -> LOG.error, exit(1)
FetchBootstrapFails ==
    /\ pc = "fetch"
    /\ ~Restarted
    /\ Exit(1, "RequestException",
            <<Ev("get", "poap.json", "get_bootstrap_data", FALSE),
              Log("Failed to fetch bootstrap data", "main")>>)
    /\ UNCHANGED <<fs, init_fs, device_image, bootstrap, running_image,
                   target_image_path, bin_files, attempt, written, dl_result,
                   handler_installed, sigterms, calls>>
    /\ UNCHANGED pure

\* running_image = get_booted_image(); target_image_path = ...
GetBootedImage ==
    /\ pc = "booted"
    /\ \E ok \in Outcomes :
        IF ok
        THEN /\ pc' = "clean"
             /\ running_image' = device_image
             /\ target_image_path' = TargetImagePath(bootstrap)
             /\ trace' = Append(trace, Cli(ShowVersion, "get_booted_image", TRUE))
             /\ UNCHANGED <<exit_code, error>>
        ELSE /\ Uncaught("cmd_exec_error",
                         <<Cli(ShowVersion, "get_booted_image", FALSE)>>)
             /\ UNCHANGED <<running_image, target_image_path>>
    /\ UNCHANGED <<fs, init_fs, device_image, bootstrap, bin_files, attempt,
                   written, dl_result, handler_installed, sigterms, calls>>
    /\ UNCHANGED pure

\* the arguments of clean_old_images are evaluated, then glob.glob
CleanStart ==
    /\ pc = "clean"
    /\ IF ToPosixPathRaises(running_image.path)
       THEN /\ Uncaught("ValueError", <<>>)
            /\ UNCHANGED bin_files
       ELSE /\ pc' = "clean_loop"
            /\ bin_files' = Glob(fs)
            /\ UNCHANGED <<trace, exit_code, error>>
    /\ UNCHANGED <<fs, init_fs, device_image, bootstrap, running_image,
                   target_image_path, attempt, written, dl_result,
                   handler_installed, sigterms, calls>>
    /\ UNCHANGED pure

\* one iteration of the loop of clean_old_images, the glob result being in
\* no particular order
CleanStep ==
    /\ pc = "clean_loop"
    /\ \E bin_file \in bin_files :
        /\ bin_files' = bin_files \ {bin_file}
        /\ IF KeepsFile(bin_file, ToPosixPath(running_image.path),
                        ToPosixPath(target_image_path))
           THEN /\ trace' = Append(trace, Log("Skipping " \o bin_file,
                                              "clean_old_images"))
                /\ UNCHANGED fs
           ELSE \E ok \in Outcomes :
                /\ trace' = Append(trace, Ev("remove", bin_file,
                                             "clean_old_images", ok))
                /\ fs' = IF ok THEN Remove(fs, bin_file) ELSE fs
    /\ UNCHANGED <<pc, init_fs, device_image, bootstrap, running_image,
                   target_image_path, attempt, written, dl_result, exit_code,
                   error, handler_installed, sigterms, calls>>
    /\ UNCHANGED pure

\* clean_old_images returns; main calls download_image for the first time
CallDownload ==
    /\ pc = "clean_loop"
    /\ bin_files = {}
    /\ pc' = "dl_exists"
    /\ attempt' = 1
    /\ trace' = Append(trace, Ev("call", "download_image", "main", TRUE))
    /\ UNCHANGED <<fs, init_fs, device_image, bootstrap, running_image,
                   target_image_path, bin_files, written, dl_result,
                   exit_code, error, handler_installed, sigterms, calls>>
    /\ UNCHANGED pure

-----------------------------------------------------------------------------
(* download_image(bootstrap["image"], target_image_path) *)

\* download_image ends with result r ("ok" or the exception it raises)
DlEnds(r) ==
    /\ pc' = "dl_return"
    /\ dl_result' = r

\* the file is there: no transfer
DlSkipTransfer ==
    /\ pc = "dl_exists"
    /\ ~NeedsTransfer(fs, target_image_path)
    /\ pc' = "dl_md5"
    /\ trace' = Append(trace, Log("Image already exists, skipping download",
                                  "download_image"))
    /\ UNCHANGED <<fs, init_fs, device_image, bootstrap, running_image,
                   target_image_path, bin_files, attempt, written, dl_result,
                   exit_code, error, handler_installed, sigterms, calls>>
    /\ UNCHANGED pure

\* requests.get and raise_for_status succeed, the target file is opened "wb"
DlRequest ==
    /\ pc = "dl_exists"
    /\ NeedsTransfer(fs, target_image_path)
    /\ pc' = "dl_stream"
    /\ written' = 0
    /\ fs' = WriteFile(fs, ToPosixPath(target_image_path), Partial)
    /\ trace' = trace \o
          <<Ev("get", PathStr(bootstrap.image.url), "download_image", TRUE),
            Ev("open", ToPosixPath(target_image_path), "download_image", TRUE)>>
    /\ UNCHANGED <<init_fs, device_image, bootstrap, running_image,
                   target_image_path, bin_files, attempt, dl_result,
                   exit_code, error, handler_installed, sigterms, calls>>
    /\ UNCHANGED pure

\* requests.get or raise_for_status raises: nothing was opened
DlRequestFails ==
    /\ pc = "dl_exists"
    /\ ~Restarted
    /\ NeedsTransfer(fs, target_image_path)
    /\ DlEnds("RequestException")
    /\ trace' = Append(trace, Ev("get", PathStr(bootstrap.image.url),
                                 "download_image", FALSE))
    /\ UNCHANGED <<fs, init_fs, device_image, bootstrap, running_image,
                   target_image_path, bin_files, attempt, written,
                   exit_code, error, handler_installed, sigterms, calls>>
    /\ UNCHANGED pure

\* one chunk of iter_content is written; after the last one the file is
\* closed and holds what the server sent, whole but not necessarily intact
DlWriteChunk ==
    /\ pc = "dl_stream"
    /\ written < NumChunks
    /\ written' = written + 1
    /\ trace' = Append(trace, Ev("write", ToPosixPath(target_image_path),
                                 "download_image", TRUE))
    /\ IF written + 1 = NumChunks
       THEN /\ pc' = "dl_md5"
            /\ \E received \in Received(bootstrap.image) :
                 fs' = WriteFile(fs, ToPosixPath(target_image_path), received)
       ELSE UNCHANGED <<pc, fs>>
    /\ UNCHANGED <<init_fs, device_image, bootstrap, running_image,
                   target_image_path, bin_files, attempt, dl_result,
                   exit_code, error, handler_installed, sigterms, calls>>
    /\ UNCHANGED pure

\* iter_content raises in the middle of the body: the with block closes the
\* file and the exception leaves download_image
DlStreamFails ==
    /\ pc = "dl_stream"
    /\ ~Restarted
    /\ written < NumChunks
    /\ DlEnds("RequestException")
    /\ trace' = Append(trace, Ev("raise", "RequestException",
                                 "download_image", TRUE))
    /\ UNCHANGED <<fs, init_fs, device_image, bootstrap, running_image,
                   target_image_path, bin_files, attempt, written,
                   exit_code, error, handler_installed, sigterms, calls>>
    /\ UNCHANGED pure

\* the device computes the checksum of the file, download_image compares
DlVerify ==
    /\ pc = "dl_md5"
    /\ \E ok \in Outcomes :
        IF ~ok
        THEN /\ DlEnds("cmd_exec_error")
             /\ trace' = Append(trace, Cli(ShowFileMd5(target_image_path),
                                           "download_image", FALSE))
        ELSE IF Md5Mismatch(fs[ToPosixPath(target_image_path)], bootstrap.image)
        THEN /\ DlEnds("ChecksumError")
             /\ trace' = trace \o
                   <<Cli(ShowFileMd5(target_image_path), "download_image", TRUE),
                     Ev("raise", "ChecksumError", "download_image", TRUE)>>
        ELSE /\ DlEnds("ok")
             /\ trace' = trace \o
                   <<Cli(ShowFileMd5(target_image_path), "download_image", TRUE),
                     Log("MD5 checksum matches expected value", "download_image")>>
    /\ UNCHANGED <<fs, init_fs, device_image, bootstrap, running_image,
                   target_image_path, bin_files, attempt, written,
                   exit_code, error, handler_installed, sigterms, calls>>
    /\ UNCHANGED pure

-----------------------------------------------------------------------------
(* main: the try statement around download_image *)

\* download_image returned normally, on the first call or on the second
DownloadReturns ==
    /\ pc = "dl_return"
    /\ attempt \in {1, 2}
    /\ dl_result = "ok"
    /\ pc' = "boot_decide"
    /\ UNCHANGED <<fs, init_fs, device_image, bootstrap, running_image,
                   target_image_path, bin_files, attempt, written, dl_result,
                   trace, exit_code, error, handler_installed, sigterms, calls>>
    /\ UNCHANGED pure

\* except ChecksumError, entered from the call inside the try block only
OnChecksumError ==
    /\ pc = "dl_return"
    /\ attempt = 1
    /\ dl_result = "ChecksumError"
    /\ IF RetryAllowed(target_image_path, running_image)
       THEN /\ pc' = "dl_exists"
            /\ attempt' = 2
            /\ fs' = Remove(fs, ToPosixPath(target_image_path))
            /\ trace' = trace \o
                  <<Log("ChecksumError", "main"),
                    Ev("remove", ToPosixPath(target_image_path), "main", TRUE),
                    Ev("call", "download_image", "main", TRUE)>>
       ELSE /\ pc' = "boot_decide"
            /\ trace' = Append(trace, Log("ChecksumError", "main"))
            /\ UNCHANGED <<fs, attempt>>
    /\ UNCHANGED <<init_fs, device_image, bootstrap, running_image,
                   target_image_path, bin_files, written, dl_result,
                   exit_code, error, handler_installed, sigterms, calls>>
    /\ UNCHANGED pure

\* OnRequestException that logs and lets the run go on
OnRequestExceptionContinues ==
    /\ pc = "dl_return"
    /\ attempt = 1
    /\ dl_result = "RequestException"
    /\ pc' = "boot_decide"
    /\ trace' = Append(trace, Log("Failed to download image", "main"))
    /\ UNCHANGED <<fs, init_fs, device_image, bootstrap, running_image,
                   target_image_path, bin_files, attempt, written, dl_result,
                   exit_code, error, handler_installed, sigterms, calls>>
    /\ UNCHANGED pure

\* except requests.RequestException, entered from the call inside the try
\* block only: LOG.error, exit(1)
OnRequestException ==
    /\ pc = "dl_return"
    /\ attempt = 1
    /\ dl_result = "RequestException"
    /\ Exit(1, "RequestException", <<Log("Failed to download image", "main")>>)
    /\ UNCHANGED <<fs, init_fs, device_image, bootstrap, running_image,
                   target_image_path, bin_files, attempt, written, dl_result,
                   handler_installed, sigterms, calls>>
    /\ UNCHANGED pure

\* DownloadRaisesUncaught with the retry repeated for as long as the checksum
\* mismatches
DownloadRetriesAgain ==
    /\ pc = "dl_return"
    /\ \/ /\ \/ attempt = 1 /\ dl_result = "cmd_exec_error"
             \/ attempt = 2 /\ dl_result \notin {"ok", "ChecksumError"}
          /\ Uncaught(dl_result, <<>>)
          /\ UNCHANGED fs
       \/ /\ attempt = 2 /\ dl_result = "ChecksumError"
          /\ pc' = "dl_exists"
          /\ fs' = Remove(fs, ToPosixPath(target_image_path))
          /\ trace' = trace \o
                <<Ev("remove", ToPosixPath(target_image_path), "main", TRUE),
                  Ev("call", "download_image", "main", TRUE)>>
          /\ UNCHANGED <<exit_code, error>>
    /\ UNCHANGED <<init_fs, device_image, bootstrap, running_image,
                   target_image_path, bin_files, attempt, written, dl_result,
                   handler_installed, sigterms, calls>>
    /\ UNCHANGED pure

\* no except clause of main takes the exception: a cmd_exec_error of the
\* first call, or any exception of the call made inside the except block
DownloadRaisesUncaught ==
    /\ pc = "dl_return"
    /\ \/ attempt = 1 /\ dl_result = "cmd_exec_error"
       \/ attempt = 2 /\ dl_result # "ok"
    /\ Uncaught(dl_result, <<>>)
    /\ UNCHANGED <<fs, init_fs, device_image, bootstrap, running_image,
                   target_image_path, bin_files, attempt, written, dl_result,
                   handler_installed, sigterms, calls>>
    /\ UNCHANGED pure

-----------------------------------------------------------------------------
(* main: boot variable, configuration, reload *)

\* BootDecide taken from the presence of the target file on the volume
BootDecideByFile ==
    /\ pc = "boot_decide"
    /\ IF ~Exists(init_fs, ToPosixPath(target_image_path))
       THEN /\ pc' = "boot_configure"
            /\ trace' = Append(trace, Log("Setting boot image", "main"))
       ELSE /\ pc' = "configure"
            /\ trace' = Append(trace, Log("skipping boot configuration", "main"))
    /\ UNCHANGED <<fs, init_fs, device_image, bootstrap, running_image,
                   target_image_path, bin_files, attempt, written, dl_result,
                   exit_code, error, handler_installed, sigterms, calls>>
    /\ UNCHANGED pure

\* the if statement after the download
BootDecide ==
    /\ pc = "boot_decide"
    /\ IF NeedsNewBootConfig(running_image, target_image_path, bootstrap.image)
       THEN /\ pc' = "boot_configure"
            /\ trace' = Append(trace, Log("Setting boot image", "main"))
       ELSE /\ pc' = "configure"
            /\ trace' = Append(trace, Log("skipping boot configuration", "main"))
    /\ UNCHANGED <<fs, init_fs, device_image, bootstrap, running_image,
                   target_image_path, bin_files, attempt, written, dl_result,
                   exit_code, error, handler_installed, sigterms, calls>>
    /\ UNCHANGED pure

\* Command with a failure logged and the run going on
CommandIgnoresError(at, command, site, next) ==
    /\ pc = at
    /\ pc' = next
    /\ \E ok \in Outcomes :
        trace' = trace \o
            (IF ok
             THEN <<Cli(command, site, TRUE)>>
             ELSE <<Cli(command, site, FALSE), Log("cmd_exec_error", site)>>)
    /\ UNCHANGED <<fs, init_fs, device_image, bootstrap, running_image,
                   target_image_path, bin_files, attempt, written, dl_result,
                   exit_code, error, handler_installed, sigterms, calls>>
    /\ UNCHANGED pure

\* a device command of main that no try block surrounds: it is issued at
\* position `at` and the run goes on at `next`, or it raises cmd_exec_error
Command(at, command, site, next) ==
    /\ pc = at
    /\ \E ok \in Outcomes :
        IF ok
        THEN /\ pc' = next
             /\ trace' = Append(trace, Cli(command, site, TRUE))
             /\ UNCHANGED <<exit_code, error>>
        ELSE Uncaught("cmd_exec_error", <<Cli(command, site, FALSE)>>)
    /\ UNCHANGED <<fs, init_fs, device_image, bootstrap, running_image,
                   target_image_path, bin_files, attempt, written, dl_result,
                   handler_installed, sigterms, calls>>
    /\ UNCHANGED pure

\* configure([f'boot nxos {target_image_path}'])
ConfigureBoot ==
    Command("boot_configure", ConfString(<<BootNxos(target_image_path)>>),
            "configure", "boot_copy")

\* cli('copy running-config startup-config') of the boot-variable block
CopyAfterBoot ==
    Command("boot_copy", CopyRunningStartup, "main", "show_boot")

\* cli_json('show boot')
QueryBoot ==
    Command("show_boot", ShowBoot, "main", "configure")

\* ConfigureLines followed by the status check instead of the save
ConfigureLinesNoSave ==
    Command("configure", ConfString(bootstrap.config.lines), "configure",
            "show_startup")

\* configure(bootstrap["config"]["lines"])
ConfigureLines ==
    Command("configure", ConfString(bootstrap.config.lines), "configure", "copy")

\* CopyFinal with a failure logged and the run going on
CopyFinalIgnoresError ==
    /\ pc = "copy"
    /\ pc' = "show_startup"
    /\ \E ok \in Outcomes :
        trace' = trace \o
            (IF ok
             THEN <<Cli(CopyRunningStartup, "main", TRUE)>>
             ELSE <<Cli(CopyRunningStartup, "main", FALSE),
                    Log("Failed to copy running-config to startup-config",
                        "main")>>)
    /\ UNCHANGED <<fs, init_fs, device_image, bootstrap, running_image,
                   target_image_path, bin_files, attempt, written, dl_result,
                   exit_code, error, handler_installed, sigterms, calls>>
    /\ UNCHANGED pure

\* the final copy, inside try: success, or except cmd_exec_error -> exit(1)
CopyFinal ==
    /\ pc = "copy"
    /\ \E ok \in Outcomes :
        IF ok
        THEN /\ pc' = "show_startup"
             /\ trace' = Append(trace, Cli(CopyRunningStartup, "main", TRUE))
             /\ UNCHANGED <<exit_code, error>>
        ELSE Exit(1, "cmd_exec_error",
                  <<Cli(CopyRunningStartup, "main", FALSE),
                    Log("Failed to copy running-config to startup-config",
                        "main")>>)
    /\ UNCHANGED <<fs, init_fs, device_image, bootstrap, running_image,
                   target_image_path, bin_files, attempt, written, dl_result,
                   handler_installed, sigterms, calls>>
    /\ UNCHANGED pure

\* str(e) of the cmd_exec_error 'show startup-config' may raise, as the
\* pieces it is made of
StartupErrors ==
    { <<"% ", "No startup configuration found", " on this device">>,
      <<"Syntax error while parsing 'show startup-config'">> }

\* the errors 'show startup-config' may raise in this run
StartupFailures == IF Restarted THEN {} ELSE StartupErrors

\* "No startup configuration found" in str(e)
IsNoStartupConfig(message) ==
    \E k \in DOMAIN message : message[k] = "No startup configuration found"

\* what the except block of the status check logs for str(e) = message
StartupErrorLog(message) ==
    IF IsNoStartupConfig(message)
    THEN Log("No startup configuration found, maybe we need a reboot?", "main")
    ELSE Log("Error showing startup-config", "main")

\* ShowStartup with the errors other than "No startup configuration found"
\* ending the run
ShowStartupFatal ==
    /\ pc = "show_startup"
    /\ \/ /\ pc' = "reload"
          /\ trace' = Append(trace, Cli(ShowStartupConfig, "main", TRUE))
          /\ UNCHANGED <<exit_code, error>>
       \/ \E message \in StartupFailures :
            IF IsNoStartupConfig(message)
            THEN /\ pc' = "reload"
                 /\ trace' = trace \o
                       <<Cli(ShowStartupConfig, "main", FALSE),
                         Ev("raise", Join(message, ""), "cli", TRUE),
                         StartupErrorLog(message)>>
                 /\ UNCHANGED <<exit_code, error>>
            ELSE Exit(1, "cmd_exec_error",
                      <<Cli(ShowStartupConfig, "main", FALSE),
                        Ev("raise", Join(message, ""), "cli", TRUE),
                        StartupErrorLog(message)>>)
    /\ UNCHANGED <<fs, init_fs, device_image, bootstrap, running_image,
                   target_image_path, bin_files, attempt, written, dl_result,
                   handler_installed, sigterms, calls>>
    /\ UNCHANGED pure

\* cli('show startup-config') inside try: both except branches only log
ShowStartup ==
    /\ pc = "show_startup"
    /\ pc' = "reload"
    /\ \/ trace' = Append(trace, Cli(ShowStartupConfig, "main", TRUE))
       \/ \E message \in StartupFailures :
            trace' = trace \o
                <<Cli(ShowStartupConfig, "main", FALSE),
                  Ev("raise", Join(message, ""), "cli", TRUE),
                  StartupErrorLog(message)>>
    /\ UNCHANGED <<fs, init_fs, device_image, bootstrap, running_image,
                   target_image_path, bin_files, attempt, written, dl_result,
                   exit_code, error, handler_installed, sigterms, calls>>
    /\ UNCHANGED pure

SuccessMessage == "POAP process completed successfully"

\* LOG.info(success), cli('terminal dont-ask ; reload'), end of main
Reload ==
    /\ pc = "reload"
    /\ \E ok \in Outcomes :
        IF ok
        THEN Return(<<Log(SuccessMessage, "main"), Cli(ReloadCmd, "main", TRUE)>>)
        ELSE Uncaught("cmd_exec_error",
                      <<Log(SuccessMessage, "main"), Cli(ReloadCmd, "main", FALSE)>>)
    /\ UNCHANGED <<fs, init_fs, device_image, bootstrap, running_image,
                   target_image_path, bin_files, attempt, written, dl_result,
                   handler_installed, sigterms, calls>>
    /\ UNCHANGED pure

Next ==
    \/ Setup
    \/ Sigterm
    \/ GetSerial
    \/ FetchBootstrap
    \/ FetchBootstrapFails
    \/ GetBootedImage
    \/ CleanStart
    \/ CleanStep
    \/ CallDownload
    \/ DlSkipTransfer
    \/ DlRequest
    \/ DlRequestFails
    \/ DlWriteChunk
    \/ DlStreamFails
    \/ DlVerify
    \/ DownloadReturns
    \/ OnChecksumError
    \/ OnRequestException
    \/ DownloadRaisesUncaught
    \/ BootDecide
    \/ ConfigureBoot
    \/ CopyAfterBoot
    \/ QueryBoot
    \/ ConfigureLines
    \/ CopyFinal
    \/ ShowStartup
    \/ Reload

Spec == Init /\ [][Next]_vars

-----------------------------------------------------------------------------
(* download_image called directly, several times in a row, on an arbitrary  *)
(* boot volume                                                              *)

DriverVolumes == UNION { Volumes(img) : img \in DeviceImages }

InitDownload ==
    /\ pc = "idle"
    /\ device_image = NoImage
    /\ fs \in DriverVolumes
    /\ init_fs = fs
    /\ bootstrap \in Descriptors
    /\ running_image = NoImage
    /\ target_image_path = TargetImagePath(bootstrap)
    /\ bin_files = {}
    /\ attempt = 0
    /\ written = 0
    /\ dl_result = "none"
    /\ trace = <<>>
    /\ exit_code = NoExit
    /\ error = "none"
    /\ handler_installed = FALSE
    /\ sigterms = 0
    /\ calls = <<>>
    /\ PureIdle

\* download_image(image_conf, target_image_path) is entered
DriverCall ==
    /\ pc = "idle"
    /\ Len(calls) < MaxCalls
    /\ pc' = "dl_exists"
    /\ attempt' = attempt + 1
    /\ calls' = Append(calls, [before |-> fs, after |-> fs,
                               mark |-> Len(trace), result |-> "pending"])
    /\ UNCHANGED <<fs, init_fs, device_image, bootstrap, running_image,
                   target_image_path, bin_files, written, dl_result, trace,
                   exit_code, error, handler_installed, sigterms>>
    /\ UNCHANGED pure

\* download_image returns or raises to its caller
DriverReturn ==
    /\ pc = "dl_return"
    /\ pc' = "idle"
    /\ calls' = [calls EXCEPT ![Len(calls)] =
                    [@ EXCEPT !.after = fs, !.result = dl_result]]
    /\ UNCHANGED <<fs, init_fs, device_image, bootstrap, running_image,
                   target_image_path, bin_files, attempt, written, dl_result,
                   trace, exit_code, error, handler_installed, sigterms>>
    /\ UNCHANGED pure

NextDownload ==
    \/ DriverCall
    \/ DlSkipTransfer
    \/ DlRequest
    \/ DlRequestFails
    \/ DlWriteChunk
    \/ DlStreamFails
    \/ DlVerify
    \/ DriverReturn

SpecDownload == InitDownload /\ [][NextDownload]_vars

-----------------------------------------------------------------------------
(* to_posix_path called directly on an arbitrary path                       *)

\* tokens path.split("/") has after the first
MaxSegs == 4

\* first tokens: the volume labels and some that are none
Heads == VolumeLabels \cup {"foo:", "bootflash", "volatile:", ""}
Segs == {"", "dir", "file.bin", "bar"}
PathInputs ==
    { <<head>> \o tail :
        head \in Heads,
        tail \in UNION { [1..n -> Segs] : n \in 0..MaxSegs } }

\* no run of main is in progress
MainIdle ==
    /\ pc = "idle"
    /\ device_image = NoImage
    /\ fs = [p \in FilePaths |-> Absent]
    /\ init_fs = fs
    /\ bootstrap = NoBootstrap
    /\ running_image = NoImage
    /\ target_image_path = NoPath
    /\ bin_files = {}
    /\ attempt = 0
    /\ written = 0
    /\ dl_result = "none"
    /\ trace = <<>>
    /\ exit_code = NoExit
    /\ error = "none"
    /\ handler_installed = FALSE
    /\ sigterms = 0
    /\ calls = <<>>

InitPath ==
    /\ MainIdle
    /\ cisco_path \in PathInputs
    /\ ppath = NoCall
    /\ password = <<>>
    /\ salt_bytes = None
    /\ hashes = <<>>

\* to_posix_path(path) returns or raises
ToPosixPathCall ==
    /\ ppath = NoCall
    /\ ppath' = IF ToPosixPathRaises(cisco_path)
                THEN "raise ValueError"
                ELSE ToPosixPath(cisco_path)
    /\ UNCHANGED <<pc, fs, init_fs, device_image, bootstrap, running_image,
                   target_image_path, bin_files, attempt, written, dl_result,
                   trace, exit_code, error, handler_installed, sigterms, calls,
                   cisco_path, password, salt_bytes, hashes>>

NextPath == ToPosixPathCall

SpecPath == InitPath /\ [][NextPath]_vars

-----------------------------------------------------------------------------
(* generate_type8_password called directly                                  *)
(* A str is the sequence of its characters, bytes the sequence of its       *)
(* values 0..255.                                                           *)

\* calls made with the same arguments
MaxHashCalls == 2
\* values os.urandom(10) may return
NumUrandom == 4

std_b64chars ==
    <<"A", "B", "C", "D", "E", "F", "G", "H", "I", "J", "K", "L", "M",
      "N", "O", "P", "Q", "R", "S", "T", "U", "V", "W", "X", "Y", "Z",
      "a", "b", "c", "d", "e", "f", "g", "h", "i", "j", "k", "l", "m",
      "n", "o", "p", "q", "r", "s", "t", "u", "v", "w", "x", "y", "z",
      "0", "1", "2", "3", "4", "5", "6", "7", "8", "9", "+", "/">>
cisco_b64chars ==
    <<".", "/", "0", "1", "2", "3", "4", "5", "6", "7", "8", "9", "A",
      "B", "C", "D", "E", "F", "G", "H", "I", "J", "K", "L", "M", "N",
      "O", "P", "Q", "R", "S", "T", "U", "V", "W", "X", "Y", "Z", "a",
      "b", "c", "d", "e", "f", "g", "h", "i", "j", "k", "l", "m", "n",
      "o", "p", "q", "r", "s", "t", "u", "v", "w", "x", "y", "z">>

\* str.maketrans(std_b64chars, cisco_b64chars), applied to one character:
\* characters that are not in the table stay as they are
b64table(c) ==
    IF \E k \in DOMAIN std_b64chars : std_b64chars[k] = c
    THEN cisco_b64chars[CHOOSE k \in DOMAIN std_b64chars : std_b64chars[k] = c]
    ELSE c

RECURSIVE B64Encode(_)
\* base64.b64encode(data).decode('ascii')
B64Encode(data) ==
    IF Len(data) = 0 THEN <<>>
    ELSE IF Len(data) = 1
    THEN <<std_b64chars[(data[1] \div 4) + 1],
           std_b64chars[(data[1] % 4) * 16 + 1], "=", "=">>
    ELSE IF Len(data) = 2
    THEN <<std_b64chars[(data[1] \div 4) + 1],
           std_b64chars[(data[1] % 4) * 16 + (data[2] \div 16) + 1],
           std_b64chars[(data[2] % 16) * 4 + 1], "=">>
    ELSE <<std_b64chars[(data[1] \div 4) + 1],
           std_b64chars[(data[1] % 4) * 16 + (data[2] \div 16) + 1],
           std_b64chars[(data[2] % 16) * 4 + (data[3] \div 64) + 1],
           std_b64chars[(data[3] % 64) + 1]>>
         \o B64Encode(SubSeq(data, 4, Len(data)))

\* b64.translate(b64table)
Translate(b64) == [k \in DOMAIN b64 |-> b64table(b64[k])]

RECURSIVE RStrip(_, _)
\* str.rstrip(c)
RStrip(str, c) ==
    IF Len(str) > 0 /\ str[Len(str)] = c
    THEN RStrip(SubSeq(str, 1, Len(str) - 1), c)
    ELSE str

\* to_cisco_base64(data)
ToCiscoBase64(data) == RStrip(Translate(B64Encode(data)), "=")

\* one code point as UTF-8
EncodePoint(cp) ==
    IF cp < 128 THEN <<cp>>
    ELSE <<192 + (cp \div 64), 128 + (cp % 64)>>

RECURSIVE Encode(_)
\* password.encode(), for code points below 2048
Encode(str) ==
    IF str = <<>> THEN <<>> ELSE EncodePoint(Head(str)) \o Encode(Tail(str))

RECURSIVE Sum(_)
Sum(data) == IF data = <<>> THEN 0 ELSE Head(data) + Sum(Tail(data))

Iterations == 20000
\* bytes os.urandom is asked for
SaltLen == 10
\* digest size of SHA-256, the length of the derived key
KeyLen == 32

\* hashlib.pbkdf2_hmac('sha256', pw, salt, iterations): the library function
\* is stood for by a fixed function of its arguments with a key of 32 bytes
Pbkdf2HmacSha256(pw, salt, iterations) ==
    [i \in 1..KeyLen |->
        (Sum(pw) * 7 + Len(pw) * 3 + Sum(salt) * 13 + Len(salt) * 5
            + iterations + i * 31) % 256]

\* what os.urandom(10) may return
Urandom == { [i \in 1..SaltLen |-> (k * 37 + i * 11) % 256] : k \in 1..NumUrandom }

\* salt_bytes as passed by the caller
Supplied(bytes) == [supplied |-> TRUE, bytes |-> bytes]

\* "", "pw", "pe" with an acute accent
Passwords == { <<>>, <<112, 119>>, <<112, 233>> }
Salts ==
    { None, Supplied(<<>>), Supplied(<<1>>), Supplied(<<255, 0>>),
      Supplied([i \in 1..SaltLen |-> i]),
      Supplied([i \in 1..SaltLen |-> 250 - i]) }

\* not salt_bytes
Falsy(salt) == ~salt.supplied \/ Len(salt.bytes) = 0

\* the characters of a string literal of the return statement
Prefix == <<"$", "n", "x", "-", "p", "b", "k", "d", "f", "2", "$">>

\* the return value for the salt the derivation is made with
Type8(pw, salt) ==
    Prefix \o ToCiscoBase64(salt) \o <<"$">>
        \o ToCiscoBase64(Pbkdf2HmacSha256(Encode(pw), salt, Iterations))

InitHash ==
    /\ MainIdle
    /\ cisco_path = NoPath
    /\ ppath = NoCall
    /\ password \in Passwords
    /\ salt_bytes \in Salts
    /\ hashes = <<>>

\* generate_type8_password(password, salt_bytes) returns
GenerateType8Password ==
    /\ Len(hashes) < MaxHashCalls
    /\ \E random \in Urandom :
        hashes' = Append(hashes,
            IF Falsy(salt_bytes)
            THEN [urandom |-> TRUE, out |-> Type8(password, random)]
            ELSE [urandom |-> FALSE, out |-> Type8(password, salt_bytes.bytes)])
    /\ UNCHANGED <<pc, fs, init_fs, device_image, bootstrap, running_image,
                   target_image_path, bin_files, attempt, written, dl_result,
                   trace, exit_code, error, handler_installed, sigterms, calls,
                   cisco_path, ppath, password, salt_bytes>>

NextHash == GenerateType8Password

SpecHash == InitHash /\ [][NextHash]_vars

-----------------------------------------------------------------------------
(* Reading the trace *)

IsTransfer(e) == e.op = "get" /\ e.site = "download_image"
IsCall(e) == e.op = "call" /\ e.arg = "download_image"
IsMd5Query(e) == e.op = "cli" /\ e.site = "download_image"
IsMatch(e) == e.op = "log" /\ e.arg = "MD5 checksum matches expected value"
IsChecksumError(e) == e.op = "raise" /\ e.arg = "ChecksumError"
IsTransportFailure(e) ==
    \/ IsTransfer(e) /\ ~e.ok
    \/ e.op = "raise" /\ e.arg = "RequestException"
IsRetryRemove(e) == e.op = "remove" /\ e.site = "main"
IsJanitorRemove(e) == e.op = "remove" /\ e.site = "clean_old_images"
IsReload(e) == e.op = "cli" /\ e.arg = ReloadCmd
IsSuccessLog(e) == e.op = "log" /\ e.arg = "POAP process completed successfully"
IsSave(e) == e.op = "cli" /\ e.arg = "copy running-config startup-config"
IsDecision(e) ==
    e.op = "log" /\ e.arg \in {"Setting boot image", "skipping boot configuration"}

Transfers == { i \in DOMAIN trace : IsTransfer(trace[i]) }
Calls == { i \in DOMAIN trace : IsCall(trace[i]) }
Md5Queries == { i \in DOMAIN trace : IsMd5Query(trace[i]) }
Matches == { i \in DOMAIN trace : IsMatch(trace[i]) }
ChecksumErrors == { i \in DOMAIN trace : IsChecksumError(trace[i]) }
TransportFailures == { i \in DOMAIN trace : IsTransportFailure(trace[i]) }
RetryRemoves == { i \in DOMAIN trace : IsRetryRemove(trace[i]) }
JanitorRemoves == { i \in DOMAIN trace : IsJanitorRemove(trace[i]) }
Reloads == { i \in DOMAIN trace : IsReload(trace[i]) }
SuccessLogs == { i \in DOMAIN trace : IsSuccessLog(trace[i]) }
Decisions == { i \in DOMAIN trace : IsDecision(trace[i]) }

\* the checksum comparisons of the run, in the order they were made
Comparisons == Matches \cup ChecksumErrors

Max(S) == CHOOSE x \in S : \A y \in S : y <= x
Min(S) == CHOOSE x \in S : \A y \in S : x <= y

\* the file the device says it booted from
RunningFile == ToPosixPath(running_image.path)
\* the file the image is downloaded to
TargetFile == ToPosixPath(target_image_path)

-----------------------------------------------------------------------------
(* C1 *)

\* C1: the checksum-retry path never deletes the running image: no file
\* removed by main after a ChecksumError is the file the running image
\* resides at, paths being equal when to_posix_path gives the same result.
C1_RetryNeverDeletesRunningImage ==
    \A i \in RetryRemoves :
        \/ ToPosixPathRaises(running_image.path)
        \/ trace[i].arg # RunningFile

-----------------------------------------------------------------------------
(* C2 *)

\* the ChecksumErrors raised by the first call of download_image
FirstCallChecksumErrors ==
    { i \in ChecksumErrors : Cardinality({ c \in Calls : c < i }) = 1 }

\* the except block of main has run for the exception raised at trace[i]
Handled(i) == Len(trace) > i

C2_WitnessTwoMismatches ==
    /\ pc = "done"
    /\ Cardinality(ChecksumErrors) = 2

-----------------------------------------------------------------------------
(* C3 *)

\* C3: no partial success is reported as success.  The success message is
\* logged and the reload issued only if the target image's checksum was
\* compared with the descriptor's md5sum and matched in that run; a run whose
\* last comparison mismatched ends with a non-zero exit and without reload.
C3_SuccessOnlyIfVerified ==
    /\ (SuccessLogs # {} \/ Reloads # {}) =>
            (Comparisons # {} /\ Max(Comparisons) \in Matches)
    /\ (pc = "done" /\ Comparisons # {} /\ Max(Comparisons) \in ChecksumErrors) =>
            (exit_code = 1 /\ Reloads = {})

-----------------------------------------------------------------------------
(* C4 *)

\* the trace entries made by the k-th direct call of download_image
EventsOfCall(k) ==
    { i \in DOMAIN trace :
        /\ i > calls[k].mark
        /\ i <= (IF k < Len(calls) THEN calls[k + 1].mark ELSE Len(trace)) }

\* the file was at the translated target path when the k-th call began
PresentAtCall(k) == Exists(calls[k].before, TargetFile)

\* the boot volume as the k-th call has left it so far
VolumeAfterCall(k) ==
    IF calls[k].result = "pending" THEN fs ELSE calls[k].after

\* C4: idempotence of fetch-and-verify.  With a file present at the
\* translated target path download_image makes no network transfer and does
\* not write the file, but still asks the device for the checksum and
\* compares it with the expected md5sum; a second call in a row makes no
\* transfer either and ends as the first did (success, or ChecksumError).
C4_DownloadIdempotent ==
    /\ \A k \in DOMAIN calls :
         PresentAtCall(k) =>
            /\ \A i \in EventsOfCall(k) :
                 /\ ~IsTransfer(trace[i])
                 /\ trace[i].op \notin {"open", "write", "remove"}
            /\ VolumeAfterCall(k) = calls[k].before
            /\ calls[k].result # "pending" =>
                 /\ \E i \in EventsOfCall(k) : IsMd5Query(trace[i])
                 /\ calls[k].result \in {"ok", "ChecksumError", "cmd_exec_error"}
                 /\ calls[k].result = "ok" =>
                      calls[k].before[TargetFile] = bootstrap.image.md5sum
                 /\ calls[k].result = "ChecksumError" =>
                      calls[k].before[TargetFile] # bootstrap.image.md5sum
                 /\ calls[k].result = "cmd_exec_error" =>
                      \E i \in EventsOfCall(k) :
                          IsMd5Query(trace[i]) /\ ~trace[i].ok
    /\ \A k \in DOMAIN calls :
         (/\ k + 1 \in DOMAIN calls
          /\ PresentAtCall(k)
          /\ calls[k].result \in {"ok", "ChecksumError"}
          /\ calls[k + 1].result \in {"ok", "ChecksumError"}) =>
            /\ calls[k + 1].result = calls[k].result
            /\ \A i \in EventsOfCall(k + 1) : ~IsTransfer(trace[i])

\* two calls in a row with the file present, both ending in ChecksumError
C4_Witness ==
    /\ Len(calls) >= 2
    /\ PresentAtCall(1)
    /\ calls[1].result = "ChecksumError"
    /\ calls[2].result = "ChecksumError"
    /\ Cardinality(Md5Queries) >= 2

-----------------------------------------------------------------------------
(* C5 *)

PathDiffers == running_image.path # target_image_path
VersionDiffers == running_image.version # bootstrap.image.version

\* the transaction that sets the boot variable to the target
BootTransaction ==
    "configure terminal ; boot nxos bootflash:///"
        \o target_image_path[Len(target_image_path)] \o " ; end"

BootCmds ==
    IF target_image_path = NoPath
    THEN {}
    ELSE { i \in DOMAIN trace :
             trace[i].op = "cli" /\ trace[i].arg = BootTransaction }

\* the run has taken the branch that rewrites the boot variable
Rewrites == pc = "boot_configure" \/ BootCmds # {}

\* C5: reconciliation.  In every run that reaches the boot-configuration
\* step the boot variable is rewritten ('boot nxos <target>' configured, then
\* running-config saved to startup-config) if and only if the running
\* image's path differs from the target path or its version differs from the
\* descriptor's version, for each of the four combinations.
C5_BootConfigIffPathOrVersionDiffers ==
    /\ Decisions = {} => BootCmds = {}
    /\ Cardinality(Decisions) <= 1
    /\ Decisions # {} =>
         /\ (PathDiffers /\ VersionDiffers) => Rewrites
         /\ (PathDiffers /\ ~VersionDiffers) => Rewrites
         /\ (~PathDiffers /\ VersionDiffers) => Rewrites
         /\ (~PathDiffers /\ ~VersionDiffers) => ~Rewrites
         /\ Cardinality(BootCmds) <= 1
         /\ \A i \in BootCmds :
              /\ i = Max(Decisions) + 1
              /\ (trace[i].ok /\ Len(trace) > i) => IsSave(trace[i + 1])
              /\ ~trace[i].ok => (pc = "done" /\ exit_code = 1)
         /\ ~Rewrites =>
              \A i \in DOMAIN trace :
                  (i > Max(Decisions) /\ IsSave(trace[i])) =>
                      \E j \in DOMAIN trace :
                          /\ Max(Decisions) < j /\ j < i
                          /\ trace[j].site = "configure"

\* same path, other version: the boot variable was configured and saved
C5_Witness ==
    /\ ~PathDiffers
    /\ VersionDiffers
    /\ \E i \in BootCmds :
         /\ trace[i].ok
         /\ Len(trace) > i
         /\ IsSave(trace[i + 1])
         /\ trace[i + 1].ok

-----------------------------------------------------------------------------
(* C6 *)

\* the transaction that applies the descriptor's lines, in their order
LinesTransaction ==
    IF bootstrap.config.lines = <<"hostname sw1">>
    THEN "configure terminal ; hostname sw1 ; end"
    ELSE "configure terminal ; interface Ethernet1/1 ; no shutdown ; end"

IsStep(e) ==
    \/ IsTransfer(e)
    \/ IsMatch(e)
    \/ e.op = "cli" /\ e.site = "configure"
    \/ IsSave(e)
    \/ IsReload(e)

\* the transfers, checksum matches, configuration transactions, saves and
\* reloads of the run, in order
Steps ==
    LET sel == SelectSeq(trace, IsStep)
    IN  [i \in 1..Len(sel) |-> sel[i].arg]

UpgradeSteps ==
    << PathStr(bootstrap.image.url),
       "MD5 checksum matches expected value",
       BootTransaction,
       "copy running-config startup-config",
       LinesTransaction,
       "copy running-config startup-config",
       "terminal dont-ask ; reload" >>

IsPrefix(a, b) == Len(a) <= Len(b) /\ a = SubSeq(b, 1, Len(a))

\* the running image differs from the target in version and in path, no file
\* is at the target path when the run starts, and no checksum mismatched
UpgradeScenario ==
    /\ running_image # NoImage
    /\ ~ToPosixPathRaises(running_image.path)
    /\ running_image.version # bootstrap.image.version
    /\ RunningFile # TargetFile
    /\ ~Exists(init_fs, TargetFile)
    /\ ChecksumErrors = {}

\* C6: upgrade scenario.  The run performs, in this order: a janitor pass
\* that keeps the running image file and the target path, one image
\* download, the checksum match, the boot-variable configuration, a save,
\* the descriptor's configuration lines, a save, the reload; at the end both
\* the running image file and the target image file exist.  A run that a
\* failing device command or transfer ends has performed a prefix of this.
C6_UpgradeScenario ==
    UpgradeScenario =>
        /\ IsPrefix(Steps, UpgradeSteps)
        /\ \A i \in JanitorRemoves :
             /\ trace[i].arg \notin {RunningFile, TargetFile}
             /\ \A t \in Transfers : i < t
        /\ RetryRemoves = {}
        /\ Exists(fs, RunningFile)
        /\ Cardinality(Transfers) <= 1
        /\ pc = "done" =>
             /\ error \in {"none", "cmd_exec_error", "RequestException"}
             /\ error = "none" =>
                  /\ Steps = UpgradeSteps
                  /\ \A i \in DOMAIN trace : IsStep(trace[i]) => trace[i].ok
                  /\ exit_code = 0
                  /\ Exists(fs, RunningFile)
                  /\ fs[TargetFile] = bootstrap.image.md5sum

\* an upgrade run that removed a stale image and ended with the reload
C6_Witness ==
    /\ UpgradeScenario
    /\ pc = "done"
    /\ error = "none"
    /\ \E i \in JanitorRemoves : trace[i].ok
    /\ Steps = UpgradeSteps

-----------------------------------------------------------------------------
(* C7 *)

NoUpgradeScenario ==
    /\ running_image # NoImage
    /\ running_image.path = target_image_path
    /\ running_image.version = bootstrap.image.version

Configures == { i \in DOMAIN trace : trace[i].site = "configure" }

\* C7: no-upgrade scenario.  When the running image matches the target in
\* path and version the boot-variable command is never issued, yet the
\* descriptor's lines are applied, in descriptor order and as one
\* transaction, and running-config is saved to startup-config before the
\* reload; only a failing device command keeps the run from doing so.
C7_NoUpgradeScenario ==
    NoUpgradeScenario =>
        /\ BootCmds = {}
        /\ \A i \in Configures : trace[i].arg = LinesTransaction
        /\ Cardinality(Configures) <= 1
        /\ Transfers = {}
        /\ \A r \in Reloads :
             \E i \in Configures :
                 \E j \in DOMAIN trace :
                     /\ trace[i].ok
                     /\ i < j /\ j < r
                     /\ IsSave(trace[j]) /\ trace[j].ok
        /\ pc = "done" =>
             /\ error \in {"none", "cmd_exec_error"}
             /\ error = "none" => Reloads # {}

\* a no-upgrade run with a two-line configuration that ended with the reload
C7_Witness ==
    /\ NoUpgradeScenario
    /\ pc = "done"
    /\ error = "none"
    /\ Len(bootstrap.config.lines) = 2
    /\ Reloads # {}
    /\ BootCmds = {}

-----------------------------------------------------------------------------
(* C8 *)

\* the files the janitor has tried to delete so far
JanitorTried == { trace[i].arg : i \in JanitorRemoves }
\* the files the janitor has deleted so far
JanitorDeleted == { trace[i].arg : i \in { j \in JanitorRemoves : trace[j].ok } }

\* the .bin files directly in /bootflash other than the two to keep
Stale == Glob(init_fs) \ {RunningFile, TargetFile}

\* C8: old-image janitor.  clean_old_images never deletes a file whose path
\* equals running_path or target_path; it attempts the deletion of every
\* other .bin file directly in the boot-image directory; a failed deletion
\* neither ends the run nor keeps the remaining files from being tried;
\* every other file is left as it was.
C8_Janitor ==
    /\ JanitorRemoves # {} =>
         /\ RunningFile \notin JanitorTried
         /\ TargetFile \notin JanitorTried
         /\ JanitorTried \subseteq Stale
         /\ \A i, j \in JanitorRemoves : trace[i].arg = trace[j].arg => i = j
    /\ Calls # {} => JanitorTried = Stale
    /\ (pc = "done" /\ Calls = {}) => JanitorRemoves = {}
    /\ (pc = "clean_loop" \/ (pc = "dl_exists" /\ attempt = 1)) =>
         /\ JanitorTried \cup { f \in bin_files : f \in Stale } = Stale
         /\ \A p \in FilePaths :
              fs[p] = IF p \in JanitorDeleted THEN Absent ELSE init_fs[p]

\* the janitor has finished although one of two deletions failed
C8_Witness ==
    /\ pc = "dl_exists"
    /\ attempt = 1
    /\ Cardinality(JanitorTried) = 2
    /\ Cardinality(JanitorDeleted) = 1
    /\ Exists(fs, RunningFile)

-----------------------------------------------------------------------------
(* C9 *)

BootstrapFetchFailed ==
    \E i \in DOMAIN trace :
        trace[i] = Ev("get", "poap.json", "get_bootstrap_data", FALSE)

\* C9: a failed fetch of the descriptor is fatal and without side effect:
\* the process exits with code 1, no image file is deleted or written, no
\* image download is started and no configuration, save or reload command is
\* issued.
C9_FetchFailureFatal ==
    BootstrapFetchFailed =>
        /\ pc = "done"
        /\ exit_code = 1
        /\ fs = init_fs
        /\ Transfers = {}
        /\ Calls = {}
        /\ \A i \in DOMAIN trace :
             /\ trace[i].op \notin {"remove", "open", "write"}
             /\ trace[i].op = "cli" => trace[i].arg = "show version"

\* the fetch of the descriptor failed and the process has exited
C9_Witness ==
    /\ BootstrapFetchFailed
    /\ pc = "done"
    /\ exit_code = 1

-----------------------------------------------------------------------------
(* C10 *)

\* C10: a transport failure during an image download, on the first attempt
\* or on the retry, aborts the download, leaves what was written of the
\* target file in place, makes the process exit with code 1, and no
\* boot-variable, configuration, save or reload command follows it.
C10_TransportFailureFatal ==
    \A i \in TransportFailures :
        /\ \A j \in DOMAIN trace : j > i => trace[j].op = "log"
        /\ pc \in {"dl_return", "done"}
        /\ pc = "done" => (exit_code = 1 /\ error = "RequestException")
        /\ trace[i].op = "raise" => fs[TargetFile] = Partial
        /\ trace[i].op = "get" => fs[TargetFile] = Absent
        /\ Decisions = {}
        /\ Reloads = {}

\* the re-download broke off in the middle and the run has ended
C10_Witness ==
    /\ pc = "done"
    /\ attempt = 2
    /\ \E i \in TransportFailures : trace[i].op = "raise"
    /\ fs[TargetFile] = Partial
    /\ exit_code = 1

-----------------------------------------------------------------------------
(* C11 *)

FailedCmds == { i \in DOMAIN trace : trace[i].op = "cli" /\ ~trace[i].ok }

\* trace[i] is the save that follows the descriptor's configuration lines
IsFinalCopy(i) ==
    /\ IsSave(trace[i])
    /\ i > 1
    /\ trace[i - 1].site = "configure"
    /\ trace[i - 1].arg = LinesTransaction

\* nothing but log lines followed trace[i] and the process has exited with 1
EndedBy(i) ==
    /\ pc = "done"
    /\ exit_code = 1
    /\ \A j \in DOMAIN trace : j > i => trace[j].op = "log"

\* C11 as stated: a command-execution error is fatal only for the final
\* save: a failing final 'copy running-config startup-config' ends the run
\* with exit code 1 and without reload, and an error of any other command of
\* the run is logged and does not by itself end the run.
C11_OnlyFinalCopyFatal ==
    \A i \in FailedCmds :
        IF IsFinalCopy(i)
        THEN pc = "done" /\ exit_code = 1 /\ Reloads = {}
        ELSE IsReload(trace[i]) \/ ~EndedBy(i)

\* C11 as amended: a command-execution error ends the run with exit code 1
\* for every device command but the 'show startup-config' status check.  A
\* failing final save is caught in main, logged, and the process exits with 1
\* without reload; an error of any other command propagates to the top-level
\* handler, which logs it and exits with 1, no further command being issued;
\* only after a failing status check does the run go on.
C11_CommandErrorsFatalButStatusCheck ==
    \A i \in FailedCmds :
        IF trace[i].arg = "show startup-config"
        THEN pc = "reload" \/ Reloads # {}
        ELSE /\ pc \in {"done", "dl_return"}
             /\ pc = "dl_return" => IsMd5Query(trace[i])
             /\ \A j \in DOMAIN trace : j > i => trace[j].op = "log"
             /\ ~IsReload(trace[i]) => Reloads = {}
             /\ pc = "done" =>
                  /\ exit_code = 1
                  /\ error = "cmd_exec_error"
                  /\ trace[Len(trace)] =
                        IF IsFinalCopy(i)
                        THEN Log("Failed to copy running-config to startup-config",
                                 "main")
                        ELSE Log("An uncaught error occurred", "__main__")

\* the boot-variable configuration failed and the process has exited with 1
C11_Witness ==
    /\ pc = "done"
    /\ exit_code = 1
    /\ \E i \in BootCmds : i \in FailedCmds

-----------------------------------------------------------------------------
(* C12 *)

FailedStatusChecks ==
    { i \in DOMAIN trace : trace[i] = Cli("show startup-config", "main", FALSE) }

\* C12: the status check never blocks provisioning.  After the final save
\* succeeded, a failure of 'show startup-config' is logged as a warning when
\* its message contains 'No startup configuration found' and as an error
\* otherwise, and in both cases the run goes on and the reload is issued.
C12_StatusCheckNeverBlocks ==
    \A i \in FailedStatusChecks :
        /\ IsFinalCopy(i - 1)
        /\ trace[i - 1].ok
        /\ trace[i + 1].op = "raise"
        /\ trace[i + 2] =
              IF trace[i + 1].arg = "% No startup configuration found on this device"
              THEN Log("No startup configuration found, maybe we need a reboot?",
                       "main")
              ELSE Log("Error showing startup-config", "main")
        /\ \/ pc = "reload" /\ Len(trace) = i + 2
           \/ /\ pc = "done"
              /\ Len(trace) >= i + 4
              /\ IsSuccessLog(trace[i + 3])
              /\ IsReload(trace[i + 4])
              /\ exit_code = (IF trace[i + 4].ok THEN 0 ELSE 1)

\* the status check failed with another error and the device was reloaded
C12_Witness ==
    /\ pc = "done"
    /\ exit_code = 0
    /\ \E i \in FailedStatusChecks :
         /\ trace[i + 1].arg = "Syntax error while parsing 'show startup-config'"
         /\ trace[i + 2] = Log("Error showing startup-config", "main")
    /\ Reloads # {}

-----------------------------------------------------------------------------
(* C14 *)

\* C14: a termination signal is caught and logged and not otherwise acted
\* upon: the step that handles a SIGTERM, at whatever position of the run it
\* is taken, leaves the position of the run, the volume, the file operations
\* and device commands made so far, the exit code and every other variable
\* of the run as they are, so the run goes on as it would without the signal.
C14_SigtermOnlyLogged ==
    [][sigterms' # sigterms =>
         /\ sigterms' = sigterms + 1
         /\ handler_installed
         /\ UNCHANGED <<pc, fs, init_fs, device_image, bootstrap, running_image,
                        target_image_path, bin_files, attempt, written,
                        dl_result, trace, exit_code, error, handler_installed,
                        calls, pure>>]_vars

\* a signal was handled during a run that downloaded the image and ended
\* with the reload and exit code 0
C14_Witness ==
    /\ sigterms = 1
    /\ pc = "done"
    /\ exit_code = 0
    /\ Transfers # {}
    /\ IsReload(trace[Len(trace)])

-----------------------------------------------------------------------------
(* C17 *)

Fetches ==
    { i \in DOMAIN trace :
        trace[i].op = "get" /\ trace[i].site = "get_bootstrap_data" }
Cleanups == { i \in DOMAIN trace : trace[i].site = "clean_old_images" }
Downloads ==
    { i \in DOMAIN trace :
        IsCall(trace[i]) \/ trace[i].site = "download_image" }
LinesCmds ==
    IF bootstrap = NoBootstrap
    THEN {}
    ELSE { i \in DOMAIN trace :
             /\ trace[i].op = "cli"
             /\ trace[i].site = "configure"
             /\ trace[i].arg = LinesTransaction }

Before(A, B) == \A a \in A : \A b \in B : a < b

\* the decision taken is the one the paths and versions alone give
DecisionFromMetadata ==
    \A d \in Decisions :
        (trace[d].arg = "Setting boot image") <=> (PathDiffers \/ VersionDiffers)

\* C17 as stated: the steps of a run occur in the order descriptor fetch,
\* reconciliation decision, old-image cleanup, image fetch and verification,
\* configuration, reload; the decision is evaluated once, before any image
\* download starts, and from the paths and versions only.
C17_DecisionBeforeDownload ==
    /\ Before(Fetches, Decisions)
    /\ Before(Decisions, Cleanups \cup Downloads)
    /\ Before(Cleanups, Downloads)
    /\ Before(Downloads, LinesCmds)
    /\ Before(LinesCmds, Reloads)
    /\ Downloads # {} => Decisions # {}
    /\ Cardinality(Decisions) <= 1
    /\ DecisionFromMetadata

\* C17 as amended: the steps of a run occur in the order descriptor fetch,
\* old-image cleanup, image fetch and verification, reconciliation decision
\* (with the boot-variable update it may ask for), configuration, reload;
\* the decision is evaluated once per run, after the image download has
\* ended and before the configuration lines are applied, and from the paths
\* and versions only.
C17_StepOrder ==
    /\ Before(Fetches, Cleanups \cup Downloads)
    /\ Before(Cleanups, Downloads)
    /\ Before(Downloads, Decisions)
    /\ Before(Decisions, BootCmds \cup LinesCmds)
    /\ Before(BootCmds, LinesCmds)
    /\ Before(LinesCmds, Reloads)
    /\ Downloads # {} => Fetches # {}
    /\ Decisions # {} => Calls # {}
    /\ LinesCmds # {} => Decisions # {}
    /\ Reloads # {} => LinesCmds # {}
    /\ Cardinality(Fetches) <= 1
    /\ Cardinality(Decisions) <= 1
    /\ (pc = "done" /\ exit_code = 0) => Cardinality(Decisions) = 1
    /\ DecisionFromMetadata

\* a run that went through every step: stale image deleted, image
\* transferred and verified, boot variable rewritten, lines applied, reload
C17_Witness ==
    /\ pc = "done"
    /\ exit_code = 0
    /\ \E i \in Cleanups : trace[i].op = "remove"
    /\ Transfers # {}
    /\ Matches # {}
    /\ \E d \in Decisions : trace[d].arg = "Setting boot image"
    /\ BootCmds # {}
    /\ LinesCmds # {}
    /\ Reloads # {}

-----------------------------------------------------------------------------
(* C18 *)

\* C18: the boot variable is only ever pointed at a verified image: every
\* 'boot nxos <target>' of a run comes after a checksum comparison of that
\* run that matched, and after no ChecksumError later than that match.
C18_BootOnlyVerified ==
    \A b \in BootCmds :
        \E m \in Matches :
            /\ m < b
            /\ \A e \in ChecksumErrors : e < b => e < m

-----------------------------------------------------------------------------
(* C19 *)

\* C19: persistence precedes reboot: reload is issued at most once and is
\* the last device command of the run; before it the descriptor's lines were
\* applied and the following 'copy running-config startup-config' completed
\* without error; a run that has a reload and exit code 1 is one whose reload
\* command itself failed, so none is issued after an exit with code 1.
C19_PersistenceBeforeReload ==
    /\ Cardinality(Reloads) <= 1
    /\ \A r \in Reloads :
        /\ \A j \in DOMAIN trace : j > r => trace[j].op # "cli"
        /\ \E c \in LinesCmds :
            /\ trace[c].ok
            /\ c + 1 < r
            /\ IsSave(trace[c + 1])
            /\ trace[c + 1].ok
            /\ \A j \in (c + 2)..(r - 1) :
                 trace[j].op = "cli" => trace[j].arg = "show startup-config"
        /\ pc = "done"
        /\ exit_code = (IF trace[r].ok THEN 0 ELSE 1)
    /\ (pc = "done" /\ exit_code = 1 /\ Reloads # {}) =>
            trace[Len(trace) - 1].arg = ReloadCmd

\* a run that rewrote the boot variable and ended with the reload
C19_Witness ==
    /\ pc = "done"
    /\ exit_code = 0
    /\ BootCmds # {}
    /\ \E c \in LinesCmds : IsSave(trace[c + 1]) /\ trace[c + 1].ok
    /\ \E r \in Reloads : r = Len(trace) /\ trace[r].ok

-----------------------------------------------------------------------------
(* C15 *)

\* the name a recognized first segment stands for
LabelName(label) ==
    CASE label = "bootflash:" -> "bootflash"
      [] label = "flash:" -> "flash"
      [] label = "nvram:" -> "nvram"
      [] label = "usb1:" -> "usb1"
      [] label = "usb2:" -> "usb2"

RECURSIVE NonEmptySegments(_)
\* "/" and the segment, for every segment that is not empty, in order
NonEmptySegments(segs) ==
    IF segs = <<>> THEN ""
    ELSE (IF Head(segs) = "" THEN "" ELSE "/" \o Head(segs))
            \o NonEmptySegments(Tail(segs))

\* C15: for a path whose first '/'-separated segment is one of bootflash:,
\* flash:, nvram:, usb1:, usb2:, to_posix_path returns '/<label>' followed by
\* the remaining non-empty segments in order, joined by '/'; so
\* 'bootflash:/dir/file.bin' and 'bootflash:///dir/file.bin' both give
\* '/bootflash/dir/file.bin'.  For any other first segment (as in 'foo:/bar')
\* it raises the invalid-path error and returns no path.
C15_PathTranslation ==
    ppath # NoCall =>
        /\ IF cisco_path[1] \in {"bootflash:", "flash:", "nvram:", "usb1:", "usb2:"}
           THEN ppath = "/" \o LabelName(cisco_path[1]) \o NonEmptySegments(Tail(cisco_path))
           ELSE ppath = "raise ValueError"
        /\ cisco_path = <<"bootflash:", "dir", "file.bin">> =>
                ppath = "/bootflash/dir/file.bin"
        /\ cisco_path = <<"bootflash:", "", "", "dir", "file.bin">> =>
                ppath = "/bootflash/dir/file.bin"
        /\ cisco_path = <<"foo:", "bar">> => ppath = "raise ValueError"

\* 'bootflash:///dir/file.bin' has been translated
C15_Witness ==
    /\ cisco_path = <<"bootflash:", "", "", "dir", "file.bin">>
    /\ ppath = "/bootflash/dir/file.bin"

-----------------------------------------------------------------------------
(* C16 *)

\* the characters './0-9A-Za-z'
VendorAlphabet ==
    {".", "/", "0", "1", "2", "3", "4", "5", "6", "7", "8", "9", "A",
     "B", "C", "D", "E", "F", "G", "H", "I", "J", "K", "L", "M", "N",
     "O", "P", "Q", "R", "S", "T", "U", "V", "W", "X", "Y", "Z", "a",
     "b", "c", "d", "e", "f", "g", "h", "i", "j", "k", "l", "m", "n",
     "o", "p", "q", "r", "s", "t", "u", "v", "w", "x", "y", "z"}

\* where the '$' of a returned string are
Dollars(out) == { k \in DOMAIN out : out[k] = "$" }
SaltEnc(out) == SubSeq(out, 12, Max(Dollars(out)) - 1)
KeyEnc(out) == SubSeq(out, Max(Dollars(out)) + 1, Len(out))

\* out reads '$nx-pbkdf2$<salt-enc>$<key-enc>', both parts being made of
\* characters of the vendor alphabet, '=' not among them
WellFormed(out) ==
    /\ Len(out) >= 12
    /\ SubSeq(out, 1, 11) = <<"$", "n", "x", "-", "p", "b", "k", "d", "f", "2", "$">>
    /\ Cardinality(Dollars(out)) = 3
    /\ \A k \in 12..Len(out) :
         k \notin Dollars(out) => out[k] \in VendorAlphabet /\ out[k] # "="

\* the standard base64 of data, padding left out, with every character
\* replaced by the one at its position in the vendor alphabet
Remapped(data) ==
    LET b64 == SelectSeq(B64Encode(data), LAMBDA c : c # "=")
    IN  [k \in DOMAIN b64 |->
            cisco_b64chars[CHOOSE n \in 1..64 : std_b64chars[n] = b64[k]]]

\* out is the rendering of the salt and of the key derived with it
RendersSalt(out, salt) ==
    /\ SaltEnc(out) = Remapped(salt)
    /\ KeyEnc(out) =
         Remapped(Pbkdf2HmacSha256(Encode(password), salt, 20000))

-----------------------------------------------------------------------------
(* main interrupted at any step and run again from scratch                  *)

\* the process is killed and the script is started again.  The volume, the
\* image the device runs and the document the server holds stay as they
\* are; everything the process held is gone.  Of the interrupted run the
\* trace keeps whether it had set the boot variable.
Crash ==
    /\ ~Restarted
    /\ pc # "done"
    /\ pc' = "start"
    /\ trace' =
          <<Ev("restart",
               IF \E i \in BootCmds : trace[i].ok
               THEN "boot variable set"
               ELSE "boot variable not set",
               "device", TRUE)>>
    /\ running_image' = NoImage
    /\ target_image_path' = NoPath
    /\ bin_files' = {}
    /\ attempt' = 0
    /\ written' = 0
    /\ dl_result' = "none"
    /\ handler_installed' = FALSE
    /\ UNCHANGED <<fs, init_fs, device_image, bootstrap, exit_code, error,
                   sigterms, calls>>
    /\ UNCHANGED pure

NextRerun ==
    \/ Setup
    \/ GetSerial
    \/ FetchBootstrap
    \/ FetchBootstrapFails
    \/ GetBootedImage
    \/ CleanStart
    \/ CleanStep
    \/ CallDownload
    \/ DlSkipTransfer
    \/ DlRequest
    \/ DlRequestFails
    \/ DlWriteChunk
    \/ DlStreamFails
    \/ DlVerify
    \/ DownloadReturns
    \/ OnChecksumError
    \/ OnRequestException
    \/ DownloadRaisesUncaught
    \/ BootDecide
    \/ ConfigureBoot
    \/ CopyAfterBoot
    \/ QueryBoot
    \/ ConfigureLines
    \/ CopyFinal
    \/ ShowStartup
    \/ Reload
    \/ Crash

SpecRerun == Init /\ [][NextRerun]_vars

-----------------------------------------------------------------------------
(* C13 *)

\* the volume an uninterrupted run on a device and network that do not fail
\* leaves: stale images deleted, the target image whole, the rest untouched
VolumeOfCleanRun ==
    [p \in FilePaths |->
        IF p \in Stale THEN Absent
        ELSE IF p = TargetFile THEN bootstrap.image.md5sum
        ELSE init_fs[p]]

\* the boot variable points at the target after the interrupted run and the
\* new one
BootVariableSet ==
    \/ trace[1].arg = "boot variable set"
    \/ \E i \in BootCmds : trace[i].ok

\* C13: re-execution after a crash is safe.  A new run started from scratch
\* after a run was interrupted at any step, with the same descriptor and on
\* a device and network that no longer fail, never deletes the file of the
\* running image and ends with the target image verified, the configuration
\* applied and saved and the reload issued, the volume and the boot variable
\* being those an uninterrupted run leaves.  (The device is one whose
\* running image is on a volume to_posix_path knows.)
C13_RerunSafe ==
    (Restarted /\ ~ToPosixPathRaises(device_image.path)) =>
        /\ \A i \in DOMAIN trace :
             trace[i].op = "remove" => trace[i].arg # ToPosixPath(device_image.path)
        /\ pc = "done" =>
             /\ exit_code = 0
             /\ Comparisons # {}
             /\ Max(Comparisons) \in Matches
             /\ fs[TargetFile] = bootstrap.image.md5sum
             /\ \E c \in LinesCmds :
                  trace[c].ok /\ IsSave(trace[c + 1]) /\ trace[c + 1].ok
             /\ Reloads # {}
             /\ fs = VolumeOfCleanRun
             /\ BootVariableSet <=> (PathDiffers \/ VersionDiffers)

====
